---- MODULE Spec2Model ----
(***************************************************************************)
(* Model of the plot package: dispatch.py (routing by dimensionality),     *)
(* plot.py (grouping of the entries and resolution of the line styles),    *)
(* tools.py (get_line_param, edges_to_centers, centers_to_edges) and       *)
(* config.py (the default line parameters).                                *)
(*                                                                         *)
(* Python values are modelled as follows.                                  *)
(*   - an optional string (projection) is [isNone, val], val a sequence of *)
(*     one-character strings, so that str.lower() works per character;     *)
(*   - a key, a name, a dimension label and a unit are TLA+ strings, and   *)
(*     "{}.{}".format / ".".join are string concatenation;                 *)
(*   - a style value is [t, s, i]: t its Python type, s its text, i its    *)
(*     integer value;                                                      *)
(*   - a float of the centre/edge helpers is an integer count of quarters  *)
(*     (all operations on the inputs used here are exact in binary).       *)
(***************************************************************************)
EXTENDS Integers, Sequences, FiniteSets, TLC

VARIABLES
    \* ---- one call of dispatch() (dispatch.py)
    d_pc,           \* "call" | "done"
    d_args,         \* the arguments of the call
    d_result,       \* what the call did: [exc, trace, routine]
    \* ---- one call of plot() (plot.py)
    pc,             \* "start" | "group" | "dispatch" | "returned" | "raised"
    dict_obj,       \* the first argument of plot
    projection, axes, line_params, bins,   \* the keyword arguments of plot
    inventory,      \* name -> entry
    todo,           \* the entries the grouping loop has not visited yet
    line_count,     \* the counter for 1d data
    tobeplotted,    \* the groups, in insertion order
    todo_keys,      \* the groups the dispatch loop has not visited yet
    calls,          \* the dispatch calls made so far, in order
    output,         \* the returned collection: key -> figure
    exc,            \* the exception plot raised, "none" when it did not
    \* ---- the centre/edge helpers (tools.py)
    e_pc,           \* "centers" | "edges" | "back"
    x_in,           \* the array given to centers_to_edges
    x_edges,        \* centers_to_edges(x_in)
    x_back          \* edges_to_centers(x_edges)

dvars == <<d_pc, d_args, d_result>>
pvars == <<pc, dict_obj, projection, axes, line_params, bins, inventory, todo,
           line_count, tobeplotted, todo_keys, calls, output, exc>>
evars == <<e_pc, x_in, x_edges, x_back>>
vars == <<dvars, pvars, evars>>

(***************************************************************************)
(* Strings                                                                 *)
(***************************************************************************)

\* An absent optional argument (Python None) and a present one.
None == [isNone |-> TRUE, val |-> <<>>]
Some(v) == [isNone |-> FALSE, val |-> v]

\* str.lower() on one character, for the characters the model uses.
LowerChar(c) ==
    CASE c = "D" -> "d"
      [] c = "X" -> "x"
      [] OTHER -> c

\* str.lower()
Lower(s) == [i \in DOMAIN s |-> LowerChar(s[i])]

\* "{}d".format(ndim) for the ndim the call can hold at that point
DigitChar(n) ==
    CASE n = 0 -> "0"
      [] n = 1 -> "1"
      [] n = 2 -> "2"
      [] OTHER -> "?"

\* sep.join(parts)
RECURSIVE Join(_, _)
Join(parts, sep) ==
    IF parts = <<>> THEN ""
    ELSE IF Len(parts) = 1 THEN parts[1]
    ELSE parts[1] \o sep \o Join(Tail(parts), sep)

(***************************************************************************)
(* dispatch.py                                                             *)
(***************************************************************************)

\* The plotting routines dispatch.py imports: the imports of plot_3d and of
\* histogram_events_data are commented out, so looking either name up
\* raises NameError.
Imported == {"plot_1d", "plot_2d"}

\* The result of looking a routine up and calling it: the routine is
\* recorded in the trace of attempted calls either way, and is invoked only
\* when the name is bound.
CallRoutine(fn, trace) ==
    IF fn \in Imported
    THEN [exc |-> "none", trace |-> Append(trace, fn), routine |-> fn]
    ELSE [exc |-> "NameError", trace |-> Append(trace, fn), routine |-> "none"]

\* dispatch.py line 24, mutated: only negative ndim is rejected.
NdimInvalidNegativeOnly(ndim) == ndim < 0

\* dispatch.py line 24
NdimInvalid(ndim) == ndim < 1

\* dispatch.py lines 28-35: the histogramming of event data. The first call
\* of histogram_events_data, made when there is a data array and a bin
\* specification, raises NameError.
HistogramStep(data_names, dbins) ==
    IF dbins.isNone \/ data_names = {} \/ dbins.val = <<>>
    THEN [exc |-> "none", trace |-> <<>>]
    ELSE [exc |-> "NameError", trace |-> <<"histogram_events_data">>]

\* dispatch.py lines 37-42
DefaultProjection(ndim, proj) ==
    Lower(IF proj.isNone
          THEN (IF ndim < 3 THEN <<DigitChar(ndim), "d">> ELSE <<"2", "d">>)
          ELSE proj.val)

\* dispatch.py lines 44-54
Route(proj, trace) ==
    IF proj = <<"1", "d">> THEN CallRoutine("plot_1d", trace)
    ELSE IF proj = <<"2", "d">> THEN CallRoutine("plot_2d", trace)
    ELSE IF proj = <<"3", "d">> THEN CallRoutine("plot_3d", trace)
    ELSE [exc |-> "RuntimeError", trace |-> trace, routine |-> "none"]

\* dispatch.py lines 11-54: the whole call. data_names are the keys of
\* data_arrays.
Dispatch(data_names, ndim, dbins, proj) ==
    IF NdimInvalid(ndim)
    THEN [exc |-> "RuntimeError", trace |-> <<>>, routine |-> "none"]
    ELSE LET h == HistogramStep(data_names, dbins) IN
         IF h.exc # "none"
         THEN [exc |-> h.exc, trace |-> h.trace, routine |-> "none"]
         ELSE Route(DefaultProjection(ndim, proj), h.trace)

PlotRoutines == {"plot_1d", "plot_2d", "plot_3d"}

\* The arguments the model calls dispatch with.
MinNdim == 1
MaxNdim == 4
DispatchNdims == (0 - MinNdim)..MaxNdim
DispatchProjections ==
    {None} \cup {Some(s) : s \in {<<"1", "d">>, <<"1", "D">>, <<"2", "d">>,
                                  <<"2", "D">>, <<"3", "d">>, <<"3", "D">>,
                                  <<"x", "y">>, <<"D">>, <<>>}}
DispatchBins == {None, Some(<<>>), Some(<<"x">>), Some(<<"x", "y">>)}
DispatchData == {{}, {"a"}, {"a", "b"}}

NoResult == [exc |-> "none", trace |-> <<>>, routine |-> "none"]

(***************************************************************************)
(* config.py and tools.get_line_param                                      *)
(***************************************************************************)

PyStr(s) == [t |-> "str", s |-> s, i |-> 0]
PyInt(i) == [t |-> "int", s |-> "", i |-> i]
PyFloat(s) == [t |-> "float", s |-> s, i |-> 0]

\* isinstance(v, int)
IsInt(v) == v.t = "int"

\* config.py: the default line parameters
config ==
    [color |-> <<PyStr("#1f77b4"), PyStr("#ff7f0e"), PyStr("#2ca02c"),
                 PyStr("#d62728"), PyStr("#9467bd"), PyStr("#8c564b"),
                 PyStr("#e377c2"), PyStr("#7f7f7f"), PyStr("#bcbd22"),
                 PyStr("#17becf")>>,
     marker |-> <<PyStr("o"), PyStr("^"), PyStr("s"), PyStr("d"), PyStr("*"), PyStr("1"),
                  PyStr("P"), PyStr("h"), PyStr("X"), PyStr("v"), PyStr("<"), PyStr(">"),
                  PyStr("2"), PyStr("3"), PyStr("4"), PyStr("8"), PyStr("p"), PyStr("H"),
                  PyStr("+"), PyStr("x"), PyStr("D")>>,
     linewidth |-> <<PyFloat("1.5")>>,
     linestyle |-> <<PyStr("none")>>]

\* The values of config[name], as a set.
ConfigValues(name) == {config[name][k] : k \in DOMAIN config[name]}

\* tools.py line 19, mutated: the index is taken as counting from 1.
get_line_param_from_one(name, index) ==
    LET param == config[name] IN param[((index + 1) % Len(param)) + 1]

\* tools.py lines 13-19. Python's % with a positive modulus is never
\* negative, like TLA+'s; sequences are indexed from 1.
get_line_param(name, index) ==
    LET param == config[name] IN param[(index % Len(param)) + 1]

(***************************************************************************)
(* plot.py                                                                 *)
(***************************************************************************)

\* The keys of line_params, in the order of the dict literal (lines 98-103).
ParamNames == <<"color", "marker", "linestyle", "linewidth">>
ParamNameSet == {ParamNames[k] : k \in DOMAIN ParamNames}

\* A dict with no key.
EmptyDict == [k \in {} |-> 0]

\* sorted(): the names the model uses, in ascending order of code points.
NameOrder == <<"a", "b", "variable", "x.m">>
Sorted(names) == SelectSeq(NameOrder, LAMBDA n : n \in names)

\* plot.py lines 33-51: the inventory of the input. A DataArray-like dict
\* is stored under its own name, a Variable-like dict under "variable", and
\* a Dataset-like dict is the inventory.
Inventory(d) ==
    CASE d.kind = "DataArray" -> (d.name :> d.data)
      [] d.kind = "Variable" -> ("variable" :> d.data)
      [] OTHER -> d.items

\* plot.py line 121
EntryNdims(var) == Len(var.dims)

\* plot.py line 124, mutated: entries without dimensions are grouped too.
PlottableAny(ndims) == ndims >= 0

\* plot.py line 124
Plottable(ndims) == ndims > 0

\* plot.py line 126
Is1dBranch(ndims, proj) ==
    ndims = 1 \/ (~proj.isNone /\ proj.val \in {<<"1", "d">>, <<"1", "D">>})

\* plot.py lines 126-142: the key of the entry's group. With a dict of
\* axes, line 132 reads var.dims on a dict and raises AttributeError.
GroupKey(name, var, ndims, proj, ax) ==
    IF Is1dBranch(ndims, proj)
    THEN IF ax.kind = "dict"
         THEN [exc |-> "AttributeError", key |-> ""]
         ELSE [exc |-> "none",
               key |-> (IF ax.kind = "list" THEN Join(ax.val, ".")
                        ELSE Join(var.dims, ".")) \o "." \o var.unit]
    ELSE [exc |-> "none", key |-> name]

\* plot.py line 140: the counter after the entry's key is built.
NextLineCount(lc, ndims, proj) ==
    IF Is1dBranch(ndims, proj) THEN lc + 1 ELSE lc

\* list.__getitem__ with an integer index
PyIndex(list, i) ==
    IF 0 <= i /\ i < Len(list) THEN [exc |-> "none", val |-> list[i + 1]]
    ELSE IF i < 0 /\ 0 - i <= Len(list)
    THEN [exc |-> "none", val |-> list[Len(list) + i + 1]]
    ELSE [exc |-> "IndexError", val |-> PyInt(0)]

\* An override is [kind, val], val a sequence of items [k, v]: the one
\* value of a scalar, the elements of a list (k is unused in both), the
\* key/value pairs of a dict.
Item(k, v) == [k |-> k, v |-> v]
DictKeys(p) == {p.val[j].k : j \in DOMAIN p.val}
DictGet(p, key) == p.val[CHOOSE j \in DOMAIN p.val : p.val[j].k = key].v
ListOf(p) == [j \in DOMAIN p.val |-> p.val[j].v]

\* plot.py lines 146-156: the value before the integer test.
RawParam(p, name, lc) ==
    CASE p.kind = "None" -> [exc |-> "none", val |-> PyInt(lc)]
      [] p.kind = "list" -> PyIndex(ListOf(p), lc)
      [] p.kind = "dict" ->
            [exc |-> "none",
             val |-> IF name \in DictKeys(p) THEN DictGet(p, name)
                     ELSE PyInt(lc)]
      [] OTHER -> [exc |-> "none", val |-> p.val[1].v]

\* plot.py lines 157-159: an integer is an index into the defaults.
ResolveParam(n, p, name, lc) ==
    LET raw == RawParam(p, name, lc) IN
    IF raw.exc = "none" /\ IsInt(raw.val)
    THEN [exc |-> "none", val |-> get_line_param(n, raw.val.i)]
    ELSE raw

\* plot.py lines 144-159: the four parameters of one entry.
ResolveParams(lp, name, lc) ==
    LET r == [n \in ParamNameSet |-> ResolveParam(n, lp[n], name, lc)]
        bad == {k \in DOMAIN ParamNames : r[ParamNames[k]].exc # "none"}
    IN IF bad = {}
       THEN [exc |-> "none", val |-> [n \in ParamNameSet |-> r[n].val]]
       ELSE [exc |-> r[ParamNames[CHOOSE k \in bad : \A j \in bad : k <= j]].exc,
             val |-> [n \in ParamNameSet |-> PyInt(0)]]

\* The index of the group with this key, 0 when there is none.
GroupIndex(tbp, key) ==
    IF \E k \in DOMAIN tbp : tbp[k].key = key
    THEN CHOOSE k \in DOMAIN tbp : tbp[k].key = key
    ELSE 0

\* plot.py lines 162-167, mutated: the group records the ndims of a
\* one-dimensional group whatever the entry.
NewGroupNdims1(key, ndims, ax) ==
    [key |-> key, ndims |-> 1, data_arrays |-> EmptyDict, axes |-> ax,
     mpl_line_params |-> [n \in ParamNameSet |-> EmptyDict]]

\* plot.py lines 162-167
NewGroup(key, ndims, ax) ==
    [key |-> key, ndims |-> ndims, data_arrays |-> EmptyDict, axes |-> ax,
     mpl_line_params |-> [n \in ParamNameSet |-> EmptyDict]]

\* plot.py lines 168-170, mutated: the entry replaces the group's content.
InsertEntryReplacing(g, name, var, mlp) ==
    [g EXCEPT !.data_arrays = (name :> var),
              !.mpl_line_params =
                  [n \in ParamNameSet |-> (name :> mlp[n])]]

\* plot.py lines 168-170
InsertEntry(g, name, var, mlp) ==
    [g EXCEPT !.data_arrays = (name :> var) @@ @,
              !.mpl_line_params =
                  [n \in ParamNameSet |-> (name :> mlp[n]) @@ @[n]]]

\* plot.py lines 161-170
AddToGroup(tbp, key, ndims, ax, name, var, mlp) ==
    LET k == GroupIndex(tbp, key) IN
    IF k = 0
    THEN Append(tbp, InsertEntry(NewGroup(key, ndims, ax), name, var, mlp))
    ELSE [tbp EXCEPT ![k] = InsertEntry(@, name, var, mlp)]

\* The figure a plotting routine returns for a group.
Figure(routine, g) == [routine |-> routine, lines |-> DOMAIN g.data_arrays]

(***************************************************************************)
(* tools.py: the centre/edge helpers. A float is an integer number of      *)
(* quarters.                                                               *)
(***************************************************************************)

Quarters(n) == 4 * n
Half(a) == a \div 2
Abs(a) == IF a < 0 THEN 0 - a ELSE a

\* tools.py lines 22-26
edges_to_centers(x) ==
    [k \in 1..(IF Len(x) = 0 THEN 0 ELSE Len(x) - 1) |-> Half(x[k + 1] + x[k])]

\* tools.py line 40, mutated: the first edge is x[0] - e[0].
centers_to_edges_first(x) ==
    IF Len(x) < 2
    THEN LET dx0 == Half(Abs(x[1]))
             dx == IF dx0 = 0 THEN Half(Quarters(1)) ELSE dx0
         IN <<x[1] - dx, x[1] + dx>>
    ELSE LET e == edges_to_centers(x)
         IN <<x[1] - e[1]>> \o e \o <<2 * x[Len(x)] - e[Len(e)]>>

\* tools.py lines 29-40
centers_to_edges(x) ==
    IF Len(x) < 2
    THEN LET dx0 == Half(Abs(x[1]))
             dx == IF dx0 = 0 THEN Half(Quarters(1)) ELSE dx0
         IN <<x[1] - dx, x[1] + dx>>
    ELSE LET e == edges_to_centers(x)
         IN <<2 * x[1] - e[1]>> \o e \o <<2 * x[Len(x)] - e[Len(e)]>>

(***************************************************************************)
(* The inputs                                                              *)
(***************************************************************************)

\* The entries of an input: without dimension, with one dimension (three
\* dimension/unit pairs, two of which give the same "<dim>.<unit>"), with
\* two dimensions.
EntryShapes ==
    {[dims |-> <<>>, unit |-> "m"],
     [dims |-> <<"x">>, unit |-> "m"],
     [dims |-> <<"x">>, unit |-> "m.s"],
     [dims |-> <<"x.m">>, unit |-> "s"],
     [dims |-> <<"x", "y">>, unit |-> "m"]}

NoData == [dims |-> <<>>, unit |-> ""]
DatasetNames == {"a", "b", "x.m"}
MaxEntries == 2

DatasetInputs ==
    {[kind |-> "Dataset", name |-> "", data |-> NoData, items |-> f] :
        f \in UNION {[S -> EntryShapes] :
                        S \in {T \in SUBSET DatasetNames :
                                  Cardinality(T) <= MaxEntries}}}
DataArrayInputs ==
    {[kind |-> "DataArray", name |-> "a", data |-> e, items |-> EmptyDict] :
        e \in EntryShapes}
VariableInputs ==
    {[kind |-> "Variable", name |-> "", data |-> e, items |-> EmptyDict] :
        e \in EntryShapes}
PlotInputs == DatasetInputs \cup DataArrayInputs \cup VariableInputs

PlotProjections ==
    {None, Some(<<"1", "d">>), Some(<<"1", "D">>), Some(<<"2", "d">>),
     Some(<<"3", "d">>), Some(<<"x", "y">>)}
PlotAxes ==
    {[kind |-> "None", val |-> <<>>],
     [kind |-> "list", val |-> <<"x">>],
     [kind |-> "dict", val |-> <<>>]}
PlotBins == {None, Some(<<"x">>)}

\* The style overrides: a scalar string, a scalar integer, a list of one
\* string, and a list and a dict (by entry name) that each hold a string
\* and an integer.
NoOverride == [kind |-> "None", val |-> <<>>]
OverrideValues ==
    {[kind |-> "scalar", val |-> <<Item("", PyStr("red"))>>],
     [kind |-> "scalar", val |-> <<Item("", PyInt(2))>>],
     [kind |-> "list", val |-> <<Item("", PyStr("red"))>>],
     [kind |-> "list", val |-> <<Item("", PyStr("red")), Item("", PyInt(1))>>],
     [kind |-> "dict", val |-> <<Item("a", PyStr("green")),
                                 Item("b", PyInt(3))>>]}
AllDefault == [n \in ParamNameSet |-> NoOverride]
StyleInputs ==
    {AllDefault} \cup
    {[AllDefault EXCEPT ![n] = v] : n \in ParamNameSet, v \in OverrideValues}

MaxLen == 3
MaxVal == 2
RECURSIVE SeqsUpTo(_, _)
SeqsUpTo(S, n) ==
    IF n = 0 THEN {<<>>}
    ELSE LET shorter == SeqsUpTo(S, n - 1)
         IN shorter \cup {Append(q, v) : q \in shorter, v \in S}
CenterArrays ==
    SeqsUpTo({Quarters(v) : v \in (0 - MaxVal)..MaxVal}, MaxLen) \ {<<>>}

(***************************************************************************)
(* The state machines                                                      *)
(***************************************************************************)

DispatchIdle ==
    /\ d_pc = "idle"
    /\ d_args = [data |-> {}, ndim |-> 0, bins |-> None, projection |-> None]
    /\ d_result = NoResult

PlotIdle ==
    /\ pc = "idle"
    /\ dict_obj = [kind |-> "Dataset", name |-> "", data |-> NoData,
                   items |-> EmptyDict]
    /\ projection = None
    /\ axes = [kind |-> "None", val |-> <<>>]
    /\ line_params = AllDefault
    /\ bins = None
    /\ inventory = EmptyDict
    /\ todo = <<>>
    /\ line_count = 0 - 1
    /\ tobeplotted = <<>>
    /\ todo_keys = <<>>
    /\ calls = <<>>
    /\ output = EmptyDict
    /\ exc = "none"

EdgesIdle ==
    /\ e_pc = "idle"
    /\ x_in = <<>>
    /\ x_edges = <<>>
    /\ x_back = <<>>

\* ---- dispatch

InitDispatch ==
    /\ d_pc = "call"
    /\ d_args \in [data : DispatchData, ndim : DispatchNdims,
                    bins : DispatchBins, projection : DispatchProjections]
    /\ d_result = NoResult
    /\ PlotIdle
    /\ EdgesIdle

\* dispatch(data_arrays, ndim, bins, projection)
DispatchCall ==
    /\ d_pc = "call"
    /\ d_result' = Dispatch(d_args.data, d_args.ndim, d_args.bins,
                            d_args.projection)
    /\ d_pc' = "done"
    /\ UNCHANGED <<d_args, pvars, evars>>

NextDispatch == DispatchCall
SpecDispatch == InitDispatch /\ [][NextDispatch]_vars

\* ---- plot

InitPlot ==
    /\ pc = "start"
    /\ dict_obj \in PlotInputs
    /\ projection \in PlotProjections
    /\ axes \in PlotAxes
    /\ line_params \in StyleInputs
    /\ bins \in PlotBins
    /\ inventory = EmptyDict
    /\ todo = <<>>
    /\ line_count = 0 - 1
    /\ tobeplotted = <<>>
    /\ todo_keys = <<>>
    /\ calls = <<>>
    /\ output = EmptyDict
    /\ exc = "none"
    /\ DispatchIdle
    /\ EdgesIdle

\* plot.py lines 30-115: the inventory, the counter, the empty grouping and
\* the sorted entries the loop will visit.
PlotStart ==
    /\ pc = "start"
    /\ inventory' = Inventory(dict_obj)
    /\ todo' = Sorted(DOMAIN Inventory(dict_obj))
    /\ line_count' = 0 - 1
    /\ tobeplotted' = <<>>
    /\ pc' = "group"
    /\ UNCHANGED <<dict_obj, projection, axes, line_params, bins, todo_keys,
                   calls, output, exc, dvars, evars>>

\* plot.py lines 115-170: one iteration of the grouping loop.
PlotGroup ==
    /\ pc = "group"
    /\ todo # <<>>
    /\ LET name == Head(todo)
           var == inventory[name]
           ndims == EntryNdims(var)
           k == GroupKey(name, var, ndims, projection, axes)
           lc == NextLineCount(line_count, ndims, projection)
           mlp == ResolveParams(line_params, name, lc)
       IN IF ~Plottable(ndims)
          THEN /\ todo' = Tail(todo)
               /\ UNCHANGED <<pc, line_count, tobeplotted, exc>>
          ELSE IF k.exc # "none"
          THEN /\ pc' = "raised"
               /\ exc' = k.exc
               /\ UNCHANGED <<todo, line_count, tobeplotted>>
          ELSE IF mlp.exc # "none"
          THEN /\ pc' = "raised"
               /\ exc' = mlp.exc
               /\ line_count' = lc
               /\ UNCHANGED <<todo, tobeplotted>>
          ELSE /\ todo' = Tail(todo)
               /\ line_count' = lc
               /\ tobeplotted' = AddToGroup(tobeplotted, k.key, ndims, axes,
                                            name, var, mlp.val)
               /\ UNCHANGED <<pc, exc>>
    /\ UNCHANGED <<dict_obj, projection, axes, line_params, bins, inventory,
                   todo_keys, calls, output, dvars, evars>>

\* plot.py lines 172-174: the grouping loop is over, the dispatch loop
\* starts on an empty collection.
PlotGrouped ==
    /\ pc = "group"
    /\ todo = <<>>
    /\ pc' = "dispatch"
    /\ todo_keys' = [k \in DOMAIN tobeplotted |-> tobeplotted[k].key]
    /\ output' = EmptyDict
    /\ UNCHANGED <<dict_obj, projection, axes, line_params, bins, inventory,
                   todo, line_count, tobeplotted, calls, exc, dvars, evars>>

\* plot.py lines 174-182: one iteration of the dispatch loop.
PlotDispatch ==
    /\ pc = "dispatch"
    /\ todo_keys # <<>>
    /\ LET key == Head(todo_keys)
           val == tobeplotted[GroupIndex(tobeplotted, key)]
           r == Dispatch(DOMAIN val.data_arrays, val.ndims, bins, projection)
       IN /\ calls' = Append(calls, [key |-> key, ndim |-> val.ndims,
                                     exc |-> r.exc, trace |-> r.trace,
                                     routine |-> r.routine])
          /\ IF r.exc # "none"
             THEN /\ pc' = "raised"
                  /\ exc' = r.exc
                  /\ UNCHANGED <<todo_keys, output>>
             ELSE /\ todo_keys' = Tail(todo_keys)
                  /\ output' = (key :> Figure(r.routine, val)) @@ output
                  /\ UNCHANGED <<pc, exc>>
    /\ UNCHANGED <<dict_obj, projection, axes, line_params, bins, inventory,
                   todo, line_count, tobeplotted, dvars, evars>>

\* plot.py line 184
PlotReturn ==
    /\ pc = "dispatch"
    /\ todo_keys = <<>>
    /\ pc' = "returned"
    /\ UNCHANGED <<dict_obj, projection, axes, line_params, bins, inventory,
                   todo, line_count, tobeplotted, todo_keys, calls, output,
                   exc, dvars, evars>>

NextPlot ==
    \/ PlotStart
    \/ PlotGroup
    \/ PlotGrouped
    \/ PlotDispatch
    \/ PlotReturn
SpecPlot == InitPlot /\ [][NextPlot]_vars

\* ---- the centre/edge helpers

InitEdges ==
    /\ e_pc = "centers"
    /\ x_in \in CenterArrays
    /\ x_edges = <<>>
    /\ x_back = <<>>
    /\ DispatchIdle
    /\ PlotIdle

\* centers_to_edges(x)
CentersToEdges ==
    /\ e_pc = "centers"
    /\ x_edges' = centers_to_edges(x_in)
    /\ e_pc' = "edges"
    /\ UNCHANGED <<x_in, x_back, dvars, pvars>>

\* edges_to_centers(centers_to_edges(x))
EdgesToCenters ==
    /\ e_pc = "edges"
    /\ x_back' = edges_to_centers(x_edges)
    /\ e_pc' = "back"
    /\ UNCHANGED <<x_in, x_edges, dvars, pvars>>

NextEdges == CentersToEdges \/ EdgesToCenters
SpecEdges == InitEdges /\ [][NextEdges]_vars

(***************************************************************************)
(* Properties of dispatch (SpecDispatch)                                   *)
(***************************************************************************)

Proj1d == <<"1", "d">>
Proj2d == <<"2", "d">>
Proj3d == <<"3", "d">>
KnownProjections == {Proj1d, Proj2d, Proj3d}
HistogramInputs ==
    ~d_args.bins.isNone /\ d_args.bins.val # <<>> /\ d_args.data # {}

\* C1: a dispatch call with ndim < 1 ends with a RuntimeError and has
\* attempted nothing before it: no histogramming call and no plotting
\* routine, whatever bins, projection and data_arrays are.
C1_NdimErrorFirst ==
    (d_pc = "done" /\ d_args.ndim < 1) =>
        /\ d_result.exc = "RuntimeError"
        /\ d_result.trace = <<>>
        /\ d_result.routine = "none"

\* A call with ndim = 0, a projection that names a routine, and bins and
\* data that would reach the histogramming step, has raised.
C1_Witness ==
    /\ d_pc = "done"
    /\ d_args.ndim = 0
    /\ HistogramInputs
    /\ d_args.projection = Some(Proj1d)
    /\ d_result.exc = "RuntimeError"

\* C2: a dispatch call with ndim >= 1 and a projection string whose
\* lower-cased form is none of "1d", "2d", "3d" raises a RuntimeError and
\* invokes no plotting routine.
C2_BadProjectionRuntimeError ==
    (/\ d_pc = "done"
     /\ d_args.ndim >= 1
     /\ ~d_args.projection.isNone
     /\ Lower(d_args.projection.val) \notin KnownProjections) =>
        /\ d_result.exc = "RuntimeError"
        /\ d_result.routine = "none"

\* C4: dispatch routes by dimensionality. With projection None, ndim = 1
\* goes to plot_1d and every ndim >= 2 to plot_2d; an explicit projection,
\* lower-cased, selects plot_1d, plot_2d or plot_3d whatever ndim is; and a
\* call that succeeds has invoked exactly one routine.
C4_Routing ==
    (d_pc = "done" /\ d_args.ndim >= 1) =>
        LET p == d_args.projection
            low == Lower(p.val)
            invoked == {k \in DOMAIN d_result.trace :
                          d_result.trace[k] \in PlotRoutines}
        IN /\ (p.isNone /\ d_args.ndim = 1) => d_result.routine = "plot_1d"
           /\ (p.isNone /\ d_args.ndim >= 2) => d_result.routine = "plot_2d"
           /\ (~p.isNone /\ low = Proj1d) => d_result.routine = "plot_1d"
           /\ (~p.isNone /\ low = Proj2d) => d_result.routine = "plot_2d"
           /\ (~p.isNone /\ low = Proj3d) => d_result.routine = "plot_3d"
           /\ d_result.exc = "none" => Cardinality(invoked) = 1

(***************************************************************************)
(* Properties of plot (SpecPlot)                                           *)
(***************************************************************************)

Groups == DOMAIN tobeplotted
GroupedNames == UNION {DOMAIN tobeplotted[g].data_arrays : g \in Groups}
GroupsOf(n) == {g \in Groups : n \in DOMAIN tobeplotted[g].data_arrays}
GroupOf(n) == CHOOSE g \in Groups : n \in DOMAIN tobeplotted[g].data_arrays
NdimsOf(n) == Len(inventory[n].dims)
Pos(n) == CHOOSE k \in DOMAIN NameOrder : NameOrder[k] = n
Forced1d == ~projection.isNone /\ projection.val \in {<<"1", "d">>, <<"1", "D">>}
ZeroDimNames == {n \in DOMAIN inventory : NdimsOf(n) = 0}
PlottableNames == {n \in DOMAIN inventory : NdimsOf(n) >= 1}

\* C3 as stated: if an entry of the input has no dimension, plot raises
\* and returns no figure collection.
C3_ZeroDimAborts == (ZeroDimNames # {}) => pc # "returned"

\* C3, amended: an entry without dimensions is skipped. It is in no group,
\* plot never calls dispatch with ndim < 1, an exception of the grouping
\* loop is never raised on such an entry, and the figures of a call that
\* returns show exactly the entries that have a dimension.
C3_ZeroDimSkipped ==
    /\ GroupedNames \cap ZeroDimNames = {}
    /\ \A k \in DOMAIN calls : calls[k].ndim >= 1
    /\ (pc = "raised" /\ calls = <<>>) => Head(todo) \notin ZeroDimNames
    /\ pc = "returned" =>
          UNION {output[k].lines : k \in DOMAIN output} = PlottableNames

\* plot has returned figures for an input that holds an entry without
\* dimensions beside one with dimensions.
C3_Witness ==
    /\ pc = "returned"
    /\ ZeroDimNames # {}
    /\ PlottableNames # {}
    /\ DOMAIN output # {}

\* C5: with axes = None and projection = None, two one-dimensional entries
\* are in the same group exactly when they have the same dimension name
\* and the same unit, and every entry with two or more dimensions is in a
\* group keyed by its own name.
C5_GroupBySignature ==
    (axes.kind = "None" /\ projection.isNone) =>
        /\ \A n, m \in GroupedNames :
              (NdimsOf(n) = 1 /\ NdimsOf(m) = 1) =>
                  ((GroupOf(n) = GroupOf(m)) <=>
                      (/\ inventory[n].dims = inventory[m].dims
                       /\ inventory[n].unit = inventory[m].unit))
        /\ \A n \in GroupedNames :
              NdimsOf(n) >= 2 => tobeplotted[GroupOf(n)].key = n

\* C6: when plot returns, the collection has one figure per group key, the
\* keys are distinct, dispatch was called once per key in the order of the
\* groups, and every entry with a dimension is in exactly one group.
C6_OneFigurePerGroup ==
    pc = "returned" =>
        /\ DOMAIN output = {tobeplotted[g].key : g \in Groups}
        /\ \A g, h \in Groups :
              tobeplotted[g].key = tobeplotted[h].key => g = h
        /\ Len(calls) = Len(tobeplotted)
        /\ \A g \in Groups : calls[g].key = tobeplotted[g].key
        /\ \A n \in PlottableNames : Cardinality(GroupsOf(n)) = 1
        /\ GroupedNames \subseteq DOMAIN inventory
        /\ \A g \in Groups :
              output[tobeplotted[g].key].lines = DOMAIN tobeplotted[g].data_arrays

\* plot has returned one figure showing two entries.
C6_Witness ==
    /\ pc = "returned"
    /\ \E g \in Groups : Cardinality(DOMAIN tobeplotted[g].data_arrays) = 2

\* The entries line_count counts: those with one dimension and, when the
\* projection is "1d" or "1D", every entry with a dimension.
CountsAsLine(n) == NdimsOf(n) = 1 \/ (Forced1d /\ NdimsOf(n) >= 1)
\* The value of line_count when entry n has its parameters resolved.
LineIndexOf(n) ==
    Cardinality({m \in DOMAIN inventory :
                   CountsAsLine(m) /\ Pos(m) <= Pos(n)}) - 1
\* The number of one-dimensional entries before entry n.
RankAmong1d(n) ==
    Cardinality({m \in DOMAIN inventory : NdimsOf(m) = 1 /\ Pos(m) < Pos(n)})
\* The value plot resolved for parameter q of entry n.
Resolved(n, q) == tobeplotted[GroupOf(n)].mpl_line_params[q][n]
\* config[q][k mod len(config[q])]
RoundRobin(q, k) == config[q][(k % Len(config[q])) + 1]
MaxIndex == 25
DefaultsInConfig ==
    \A q \in ParamNameSet : \A i \in (0 - MaxIndex)..MaxIndex :
        get_line_param(q, i) \in ConfigValues(q)

\* C7 as stated: without style overrides, the k-th one-dimensional entry
\* in ascending name order receives config[q][k mod len(config[q])] for
\* every parameter q, and get_line_param returns an element of config[q]
\* for every integer index.
C7_RoundRobinAmong1d ==
    /\ line_params = AllDefault =>
          \A n \in GroupedNames : NdimsOf(n) = 1 =>
              \A q \in ParamNameSet :
                  Resolved(n, q) = RoundRobin(q, RankAmong1d(n))
    /\ DefaultsInConfig

\* C7, amended: without style overrides, the k-th entry that line_count
\* counts (the entries with one dimension and, with projection "1d" or
\* "1D", every entry with a dimension), in ascending name order, receives
\* config[q][k mod len(config[q])]; get_line_param returns an element of
\* config[q] for every integer index.
C7_RoundRobinAmongLines ==
    /\ line_params = AllDefault =>
          \A n \in GroupedNames : CountsAsLine(n) =>
              \A q \in ParamNameSet :
                  Resolved(n, q) = RoundRobin(q, LineIndexOf(n))
    /\ DefaultsInConfig

\* Without overrides and with projection "1d", a one-dimensional entry
\* that follows an entry with two dimensions has received the second
\* default colour.
C7_Witness ==
    /\ pc = "returned"
    /\ line_params = AllDefault
    /\ \E n \in GroupedNames :
          /\ NdimsOf(n) = 1
          /\ RankAmong1d(n) = 0
          /\ LineIndexOf(n) = 1
          /\ Resolved(n, "color") = config.color[2]
          /\ Resolved(n, "linewidth") = config.linewidth[1]

\* C9: an override is never altered. A scalar is passed unchanged to every
\* entry; a dict gives entry n the value p[n] when n is a key and the
\* round-robin default otherwise; a list gives the element at the entry's
\* line index; only None yields a default from config.
C9_OverridesKept ==
    \A n \in GroupedNames : \A q \in ParamNameSet :
        LET p == line_params[q]
            li == LineIndexOf(n)
        IN /\ p.kind = "scalar" => Resolved(n, q) = p.val[1].v
           /\ (p.kind = "dict" /\ n \in DictKeys(p)) =>
                 Resolved(n, q) = DictGet(p, n)
           /\ (p.kind = "dict" /\ n \notin DictKeys(p)) =>
                 Resolved(n, q) = RoundRobin(q, li)
           /\ p.kind = "list" => Resolved(n, q) = PyIndex(ListOf(p), li).val
           /\ p.kind = "None" => Resolved(n, q) = RoundRobin(q, li)

\* The first entry of a group, in ascending name order.
FirstOf(g) ==
    CHOOSE n \in DOMAIN tobeplotted[g].data_arrays :
        \A m \in DOMAIN tobeplotted[g].data_arrays : Pos(n) <= Pos(m)
\* One resolved value per data array name, for each of the parameters.
GroupsComplete ==
    \A g \in Groups :
        /\ DOMAIN tobeplotted[g].mpl_line_params = ParamNameSet
        /\ \A q \in ParamNameSet :
              DOMAIN tobeplotted[g].mpl_line_params[q] =
                  DOMAIN tobeplotted[g].data_arrays
\* Every data array of a group has the ndims recorded for the group.
GroupsHomogeneous ==
    \A g \in Groups : \A n \in DOMAIN tobeplotted[g].data_arrays :
        Len(tobeplotted[g].data_arrays[n].dims) = tobeplotted[g].ndims
\* The "<dims>.<unit>" key of a one-dimensional entry.
LineKey(n) ==
    (IF axes.kind = "list" THEN Join(axes.val, ".")
     ELSE inventory[n].dims[1]) \o "." \o inventory[n].unit
\* An entry with two or more dimensions carries the name that is the key
\* of a one-dimensional entry.
NameClash ==
    \E n, m \in DOMAIN inventory :
        NdimsOf(n) >= 2 /\ NdimsOf(m) = 1 /\ n = LineKey(m)

\* C10 as stated: for every projection and axes, each data array of a
\* group has the ndims recorded for the group, and the group's
\* mpl_line_params hold one resolved value per data array name for each of
\* the four parameters.
C10_HomogeneousAlways == GroupsHomogeneous /\ GroupsComplete

\* C10, amended: the group's mpl_line_params hold one resolved value per
\* data array name for each of the four parameters, and the ndims recorded
\* for a group is that of its first entry in ascending name order. Each
\* data array of a group has that ndims when the projection is neither
\* "1d" nor "1D" and no entry with two or more dimensions is named like the
\* key of a one-dimensional entry.
C10_HomogeneousUnlessForced ==
    /\ GroupsComplete
    /\ \A g \in Groups : tobeplotted[g].ndims = NdimsOf(FirstOf(g))
    /\ \A g \in Groups : \A n \in DOMAIN tobeplotted[g].data_arrays :
          tobeplotted[g].data_arrays[n] = inventory[n]
    /\ (~Forced1d /\ ~NameClash) => GroupsHomogeneous

\* plot has returned two groups, one of one-dimensional entries and one
\* of an entry with two dimensions, with the projection left to default.
C10_Witness ==
    /\ pc = "returned"
    /\ ~Forced1d
    /\ ~NameClash
    /\ \E g, h \in Groups :
          tobeplotted[g].ndims = 1 /\ tobeplotted[h].ndims = 2

(***************************************************************************)
(* Properties of the centre/edge helpers (SpecEdges)                       *)
(***************************************************************************)

\* Consecutive centres are the same distance apart.
EquallySpaced(x) ==
    \A k \in 2..(Len(x) - 1) : x[k + 1] - x[k] = x[k] - x[k - 1]

\* C8 as stated: for every non-empty array x of centres,
\* edges_to_centers(centers_to_edges(x)) = x and centers_to_edges(x) has
\* len(x) + 1 elements.
C8_RoundTripAlways ==
    e_pc = "back" => (x_back = x_in /\ Len(x_edges) = Len(x_in) + 1)

\* C8, amended: centers_to_edges(x) has len(x) + 1 elements for every
\* non-empty x, the round trip keeps the length, the first and the last
\* centre, and it returns x exactly when the centres are equally spaced
\* (always so for one or two centres), the arithmetic being exact.
C8_RoundTripEquallySpaced ==
    /\ e_pc \in {"edges", "back"} => Len(x_edges) = Len(x_in) + 1
    /\ e_pc = "back" =>
          /\ Len(x_back) = Len(x_in)
          /\ x_back[1] = x_in[1]
          /\ x_back[Len(x_in)] = x_in[Len(x_in)]
          /\ (x_back = x_in) <=> EquallySpaced(x_in)

\* Three equally spaced, distinct centres have made the round trip.
C8_Witness ==
    /\ e_pc = "back"
    /\ Len(x_in) = 3
    /\ x_in[2] # x_in[1]
    /\ EquallySpaced(x_in)
    /\ x_back = x_in

====
